---- MODULE Spec2Model ----
(***************************************************************************)
(* A model of the ESG / stock dashboard back end: the ESGStockAPI class    *)
(* (esgstocks_api.py) and the Sankey data helpers (sankey.py).             *)
(*                                                                         *)
(* Tables (pandas DataFrames) are sequences of records, in row order.      *)
(* Scores that the data gives with one decimal (19.9) are held in tenths   *)
(* of a point, so 19.9 is 199 and the threshold 30 is Tenths(30).          *)
(* A missing numeric cell (NaN) is the empty tuple, a present number p is   *)
(* the one-element tuple <<p>>.  An optional argument is a set with at     *)
(* most one element: {} is Python's None.                                  *)
(***************************************************************************)
EXTENDS Integers, Sequences, FiniteSets, TLC

VARIABLES
    files,    \* the two CSV files on disk: [esg |-> rows, prices |-> wide table]
    phase,    \* "constructed" (self.esg = self.stocks = None) or "loaded"
    esg,      \* self.esg: the ESG table
    stocks,   \* self.stocks: the long stock table
    call,     \* the last operation invoked, with its arguments
    result    \* what that operation returned

vars == <<files, phase, esg, stocks, call, result>>

----------------------------------------------------------------------------
(* Bounds of the model.                                                    *)

\* ESG scores range over -MaxScore .. MaxScore points, in steps of 0.1.
MaxScore == 35
\* Business-risk scores range over -MaxRisk .. MaxRisk.
MaxRisk == 9
\* The price file holds the dates 1 .. NumDates.
NumDates == 3
\* The ESG file of the breakdown specification holds 1 .. MaxEsgRows records.
MaxEsgRows == 2
\* The table handed to code_mapping holds 1 .. MaxLinks rows.
MaxLinks == 3
\* The most rows of a table handed to stack_columns.
MaxRows == 2
\* The most columns named in one call of stack_columns.
MaxCols == 3

----------------------------------------------------------------------------
(* Values.                                                                 *)

Tenths(points) == points * 10

NaN == <<>>
Num(p) == <<p>>
IsNaN(x) == x = NaN
Val(x) == x[1]

None == {}
Some(x) == {x}
The(opt) == CHOOSE x \in opt : TRUE
Optional(S) == {None} \cup {Some(x) : x \in S}

\* Python's truth value of an optional list argument: None and [] are falsy.
Truthy(optList) == optList # None /\ The(optList) # {}
\* Python's truth value of an optional date argument: only None is falsy.
TruthyDate(optDate) == optDate # None

Range(s) == {s[i] : i \in DOMAIN s}

----------------------------------------------------------------------------
(* Classification (esgstocks_api.py, lines 60-84).                         *)

classify_esg_ge30(esg_score) ==
    IF esg_score >= Tenths(30) THEN "High ESG"
    ELSE IF esg_score >= Tenths(20) THEN "Medium ESG"
    ELSE "Low ESG"

classify_esg(esg_score) ==
    IF esg_score > Tenths(30) THEN "High ESG"
    ELSE IF esg_score >= Tenths(20) THEN "Medium ESG"
    ELSE "Low ESG"

classify_biz_risk_lt3(biz_risk) ==
    IF biz_risk < 3 THEN "Low Business Risk"
    ELSE IF biz_risk <= 6 THEN "Medium Business Risk"
    ELSE "High Business Risk"

classify_biz_risk(biz_risk) ==
    IF biz_risk <= 3 THEN "Low Business Risk"
    ELSE IF biz_risk <= 6 THEN "Medium Business Risk"
    ELSE "High Business Risk"

EsgLevels == {"Low ESG", "Medium ESG", "High ESG"}
BizRiskLevels == {"Low Business Risk", "Medium Business Risk", "High Business Risk"}

----------------------------------------------------------------------------
(* The input files.                                                        *)

AllSymbols == <<"A", "B", "C", "D">>
NameOrder == <<"Alpha", "Beta">>
Names == Range(NameOrder)
\* Python's string order on the company names.
NameRank(name) == CHOOSE i \in DOMAIN NameOrder : NameOrder[i] = name
SymbolIndex(sym) == CHOOSE i \in DOMAIN AllSymbols : AllSymbols[i] = sym

Dimensions == <<"Environmental", "Social", "Governance">>
ScoreColumns == <<"environmentScore", "socialScore", "governanceScore">>

\* The sub-scores of a record are distinct over symbols and dimensions, so that a
\* score names the cell it was read from.
SubScore(sym, k) == Tenths(10 * SymbolIndex(sym) + k)

EsgRecord(sym, name, total, risk) ==
    [Symbol |-> sym, FullName |-> name, totalEsg |-> total, overallRisk |-> risk,
     environmentScore |-> SubScore(sym, 1), socialScore |-> SubScore(sym, 2),
     governanceScore |-> SubScore(sym, 3)]

\* (totalEsg, overallRisk) of a record: one pair per ESG level, at the thresholds.
Profiles == {<<199, 3>>, <<200, 7>>, <<301, 4>>}

\* The cell of the price file at a symbol's column and a date: distinct over
\* symbols and dates; "A" runs 100, 110, 121, "B" falls from 200.
PriceOf(sym, d) ==
    CASE sym = "A" -> 100 + 10 * (d - 1) + ((d - 1) * (d - 2)) \div 2
      [] sym = "B" -> 200 - 20 * (d - 1)
      [] OTHER -> 50 * SymbolIndex(sym) + d

Dates == 1..NumDates
\* The offset the price file writes after each date.
FileTz == "-05:00"

\* A wide price file: its ticker columns, its rows in file order, each row a
\* date and one cell per column.  `gaps` are the dates at which the first
\* column is empty.
PriceFile(cols, dateOrder, gaps) ==
    [cols |-> cols,
     rows |-> [i \in DOMAIN dateOrder |->
                 [Date |-> [day |-> dateOrder[i], tz |-> FileTz],
                  cells |-> [j \in DOMAIN cols |->
                               IF j = 1 /\ dateOrder[i] \in gaps THEN NaN
                               ELSE Num(PriceOf(cols[j], dateOrder[i]))]]]]

Ascending == [i \in Dates |-> i]
Descending == [i \in Dates |-> NumDates + 1 - i]

\* Files of the breakdown specification: 1 .. MaxEsgRows ESG records with any
\* names and profiles, and one small price file.
BreakdownEsgFiles ==
    UNION {{[i \in 1..n |-> EsgRecord(AllSymbols[i], nm[i], pr[i][1], pr[i][2])] :
              nm \in [1..n -> Names], pr \in [1..n -> Profiles]} : n \in 1..MaxEsgRows}
BreakdownFiles ==
    {[esg |-> e, prices |-> PriceFile(<<"A">>, Ascending, {}), text |-> {}] :
        e \in BreakdownEsgFiles}

\* Files of the stock specification: the ESG records of "A" and "B" under any
\* names (also one shared name), and price files with columns in or out of the
\* ESG set, rows in either date order, and a first column with any empty cells.
StockEsgFiles ==
    {<<EsgRecord("A", na, 199, ra), EsgRecord("B", nb, 301, 5)>> :
        na \in Names, nb \in Names, ra \in {3, 7}}
StockPriceFiles ==
    {PriceFile(cols, ord, gaps) :
        cols \in {<<"A", "B">>, <<"C", "A">>, <<"B">>},
        ord \in {Ascending, Descending},
        gaps \in SUBSET Dates}
StockFiles ==
    {[esg |-> e, prices |-> p, text |-> {}] : e \in StockEsgFiles, p \in StockPriceFiles}

NoFiles == [esg |-> <<>>, prices |-> [cols |-> <<>>, rows |-> <<>>], text |-> {}]

\* The columns of the ESG file that the program reads, and those of them and of
\* the long price table that hold numbers.
EsgColumns ==
    {"Symbol", "FullName", "totalEsg", "overallRisk", "environmentScore", "socialScore",
     "governanceScore"}
NumericColumns ==
    {"totalEsg", "overallRisk", "environmentScore", "socialScore", "governanceScore", "Price"}

\* A cell that holds text where a number is expected.
NotANumber == "n/a"

\* What may be wrong with a pair of files: nothing, a column that is absent, or
\* a numeric column that holds text in its first row.  pd.read_csv gives a
\* column with such a cell the dtype object; the field `text` of the files
\* names these columns.
Defects ==
    {[kind |-> "none", column |-> "none"]}
        \cup {[kind |-> "absent", column |-> c] : c \in EsgColumns \cup {"Date"}}
        \cup {[kind |-> "text", column |-> c] : c \in NumericColumns}

WithoutColumn(row, c) == [col \in (DOMAIN row) \ {c} |-> row[col]]

Damaged(f, defect) ==
    CASE defect.kind = "none" -> f
      [] defect.kind = "absent" /\ defect.column = "Date" ->
           [f EXCEPT !.prices.rows =
               [i \in DOMAIN f.prices.rows |-> WithoutColumn(f.prices.rows[i], "Date")]]
      [] defect.kind = "absent" /\ defect.column # "Date" ->
           [f EXCEPT !.esg = [i \in DOMAIN f.esg |-> WithoutColumn(f.esg[i], defect.column)]]
      [] defect.kind = "text" /\ defect.column = "Price" ->
           [f EXCEPT !.prices.rows[1].cells[1] = <<NotANumber>>, !.text = {"Price"}]
      [] defect.kind = "text" /\ defect.column # "Price" ->
           [f EXCEPT !.esg[1] =
               [col \in DOMAIN f.esg[1] |->
                   IF col = defect.column THEN NotANumber ELSE f.esg[1][col]],
                     !.text = {defect.column}]

\* Files of the loading specification: the ESG records of "A" and "B", a price
\* file without empty cells, and at most one defect.
LoadPriceFiles ==
    {PriceFile(cols, ord, {}) :
        cols \in {<<"A", "B">>, <<"C", "A">>, <<"B">>}, ord \in {Ascending, Descending}}

----------------------------------------------------------------------------
(* read_data (esgstocks_api.py, lines 23-50).                              *)

\* dict(zip(Symbol, Full Name)): a later record of a symbol replaces an earlier.
ticker_to_name(esgRows) ==
    [sym \in {esgRows[i].Symbol : i \in DOMAIN esgRows} |->
        LET last == CHOOSE i \in DOMAIN esgRows :
                       /\ esgRows[i].Symbol = sym
                       /\ \A j \in DOMAIN esgRows : esgRows[j].Symbol = sym => j <= i
        IN esgRows[last].FullName]

\* pd.to_datetime(...).dt.tz_localize(None): the wall-clock date, offset dropped.
to_naive(date) == date.day

\* DataFrame.melt: one (Date, Symbol, Price) row per cell, column after column,
\* inside one column in file order.
melt_first_column(wide) ==
    LET nr == Len(wide.rows)
        nc == Len(wide.cols)
    IN [k \in 1..(nr * nc) |->
          LET j == ((k - 1) \div nr) + 1
              i == ((k - 1) % nr) + 1
          IN [Date |-> to_naive(wide.rows[i].Date), Symbol |-> wide.cols[j],
              Price |-> wide.rows[i].cells[1]]]

melt(wide) ==
    LET nr == Len(wide.rows)
        nc == Len(wide.cols)
    IN [k \in 1..(nr * nc) |->
          LET j == ((k - 1) \div nr) + 1
              i == ((k - 1) % nr) + 1
          IN [Date |-> to_naive(wide.rows[i].Date), Symbol |-> wide.cols[j],
              Price |-> wide.rows[i].cells[j]]]

\* The long stock table: the melted rows whose symbol is a key of ticker_to_name,
\* each with the full name the dictionary gives.
load_stocks_unrestricted(esgRows, wide) ==
    LET t2n == ticker_to_name(esgRows)
        long == melt(wide)
    IN [k \in DOMAIN long |->
          [Date |-> long[k].Date, Symbol |-> long[k].Symbol, Price |-> long[k].Price,
           FullName |-> IF long[k].Symbol \in DOMAIN t2n THEN t2n[long[k].Symbol]
                        ELSE NameOrder[1]]]

load_stocks(esgRows, wide) ==
    LET t2n == ticker_to_name(esgRows)
        kept == SelectSeq(melt(wide), LAMBDA r : r.Symbol \in DOMAIN t2n)
    IN [k \in DOMAIN kept |->
          [Date |-> kept[k].Date, Symbol |-> kept[k].Symbol, Price |-> kept[k].Price,
           FullName |-> t2n[kept[k].Symbol]]]

\* The dashboard is single-threaded: a view is computed when the data is loaded
\* and no other call is under way, and its table is dropped when the callback
\* that asked for it returns (esgstocks_explore.py, lines 51-115).
Idle == phase = "loaded" /\ call.op \in {"read_data", "return"}

Return ==
    /\ phase = "loaded"
    /\ call.op \notin {"read_data", "return"}
    /\ call' = [op |-> "return"]
    /\ result' = None
    /\ UNCHANGED <<files, phase, esg, stocks>>

\* The header of a table that has a row.
Header(rows) == IF rows = <<>> THEN {} ELSE DOMAIN rows[1]

\* The exception that read_data raises on the files, if any: line 33 needs the
\* column totalEsg and pd.to_numeric raises on text in it, line 36 needs Symbol
\* and Full Name, line 41 needs Date.  No other column is looked at.
read_data_error(f) ==
    IF "totalEsg" \notin Header(f.esg) THEN Some("KeyError")
    ELSE IF "totalEsg" \in f.text THEN Some("ValueError")
    ELSE IF {"Symbol", "FullName"} \ Header(f.esg) # {} THEN Some("KeyError")
    ELSE IF "Date" \notin Header(f.prices.rows) THEN Some("KeyError")
    ELSE None

\* read_data raises: self.esg was assigned at line 32, self.stocks never is.
ReadDataFails ==
    /\ phase = "constructed"
    /\ read_data_error(files) # None
    /\ phase' = "failed"
    /\ esg' = files.esg
    /\ call' = [op |-> "read_data"]
    /\ result' = read_data_error(files)
    /\ UNCHANGED <<files, stocks>>

ReadData ==
    /\ phase = "constructed"
    /\ read_data_error(files) = None
    /\ phase' = "loaded"
    /\ esg' = files.esg
    /\ stocks' = load_stocks(files.esg, files.prices)
    /\ call' = [op |-> "read_data"]
    /\ result' = None
    /\ UNCHANGED files

----------------------------------------------------------------------------
(* get_company_names (esgstocks_api.py, lines 52-58).                      *)

\* sorted(...) of a list of names: the names in string order, repeats kept.
RECURSIVE sorted_names(_)
sorted_names(names) ==
    IF names = <<>> THEN <<>>
    ELSE LET least == CHOOSE i \in DOMAIN names :
                         \A j \in DOMAIN names :
                            \/ NameRank(names[i]) < NameRank(names[j])
                            \/ NameRank(names[i]) = NameRank(names[j]) /\ i <= j
             rest == [k \in 1..(Len(names) - 1) |->
                        IF k < least THEN names[k] ELSE names[k + 1]]
         IN <<names[least]>> \o sorted_names(rest)

get_company_names(esgTable) ==
    sorted_names([i \in DOMAIN esgTable |-> esgTable[i].FullName])

GetCompanyNames ==
    /\ Idle
    /\ call' = [op |-> "get_company_names"]
    /\ result' = get_company_names(esg)
    /\ UNCHANGED <<files, phase, esg, stocks>>

----------------------------------------------------------------------------
(* build_esg_risk_hierarchy (esgstocks_api.py, lines 86-120).              *)

\* Lines 96-106: the records of the selected companies, each with its two
\* levels, filtered by ESG level and then by business-risk level.
filter_esg_ignoring_risk(esgTable, company_names, esg_levels, biz_risks) ==
    LET selected == SelectSeq(esgTable, LAMBDA r : r.FullName \in company_names)
        levelled == [i \in DOMAIN selected |->
                       [rec |-> selected[i],
                        ESGLevel |-> classify_esg(selected[i].totalEsg),
                        BusinessRiskLevel |-> classify_biz_risk(selected[i].overallRisk)]]
    IN IF Truthy(esg_levels)
       THEN SelectSeq(levelled, LAMBDA r : r.ESGLevel \in The(esg_levels))
       ELSE levelled

filter_esg(esgTable, company_names, esg_levels, biz_risks) ==
    LET selected == SelectSeq(esgTable, LAMBDA r : r.FullName \in company_names)
        with_esg == [i \in DOMAIN selected |->
                       [rec |-> selected[i],
                        ESGLevel |-> classify_esg(selected[i].totalEsg)]]
        by_esg == IF Truthy(esg_levels)
                  THEN SelectSeq(with_esg, LAMBDA r : r.ESGLevel \in The(esg_levels))
                  ELSE with_esg
        with_risk == [i \in DOMAIN by_esg |->
                        [rec |-> by_esg[i].rec, ESGLevel |-> by_esg[i].ESGLevel,
                         BusinessRiskLevel |->
                             classify_biz_risk(by_esg[i].rec.overallRisk)]]
    IN IF Truthy(biz_risks)
       THEN SelectSeq(with_risk, LAMBDA r : r.BusinessRiskLevel \in The(biz_risks))
       ELSE with_risk

\* Lines 111-120: three rows per remaining record, one per dimension.
BreakdownRow(r, k, col) ==
    [Company |-> r.rec.FullName, ESGDimension |-> Dimensions[k],
     ESGLevel |-> r.ESGLevel, BusinessRiskLevel |-> r.BusinessRiskLevel,
     Score |-> r.rec[ScoreColumns[col]]]

breakdown_rows_env_only(fltr) ==
    [n \in 1..(3 * Len(fltr)) |->
        BreakdownRow(fltr[((n - 1) \div 3) + 1], ((n - 1) % 3) + 1, 1)]

breakdown_rows(fltr) ==
    [n \in 1..(3 * Len(fltr)) |->
        BreakdownRow(fltr[((n - 1) \div 3) + 1], ((n - 1) % 3) + 1, ((n - 1) % 3) + 1)]

build_esg_risk_hierarchy(esgTable, company_names, esg_levels, biz_risks) ==
    breakdown_rows(filter_esg(esgTable, company_names, esg_levels, biz_risks))

\* The level columns written into self.esg itself, not into a copy of its rows.
BuildEsgRiskHierarchyInPlace ==
    /\ Idle
    /\ \E company_names \in SUBSET Names,
          esg_levels \in Optional(SUBSET EsgLevels),
          biz_risks \in Optional(SUBSET BizRiskLevels) :
          /\ call' = [op |-> "build_esg_risk_hierarchy", company_names |-> company_names,
                      esg_levels |-> esg_levels, biz_risks |-> biz_risks]
          /\ result' = build_esg_risk_hierarchy(esg, company_names, esg_levels, biz_risks)
    /\ esg' = [i \in DOMAIN esg |->
                 [c \in (DOMAIN esg[i]) \cup {"ESGLevel", "BusinessRiskLevel"} |->
                     CASE c = "ESGLevel" -> classify_esg(esg[i].totalEsg)
                       [] c = "BusinessRiskLevel" -> classify_biz_risk(esg[i].overallRisk)
                       [] OTHER -> esg[i][c]]]
    /\ UNCHANGED <<files, phase, stocks>>

BuildEsgRiskHierarchy ==
    /\ Idle
    /\ \E company_names \in SUBSET Names,
          esg_levels \in Optional(SUBSET EsgLevels),
          biz_risks \in Optional(SUBSET BizRiskLevels) :
          /\ call' = [op |-> "build_esg_risk_hierarchy", company_names |-> company_names,
                      esg_levels |-> esg_levels, biz_risks |-> biz_risks]
          /\ result' = build_esg_risk_hierarchy(esg, company_names, esg_levels, biz_risks)
    /\ UNCHANGED <<files, phase, esg, stocks>>

----------------------------------------------------------------------------
(* extract_stock_price_trends (esgstocks_api.py, lines 122-142).           *)

\* The order of sort_values(["Full Name", "Date"]).
RowBefore(a, b) ==
    \/ NameRank(a.FullName) < NameRank(b.FullName)
    \/ NameRank(a.FullName) = NameRank(b.FullName) /\ a.Date < b.Date

\* sort_values on several keys is a stable sort: rows equal in name and date
\* keep the order they had.  Insertion after every row that is not later.
RECURSIVE InsertRow(_, _)
InsertRow(sorted, r) ==
    IF sorted = <<>> THEN <<r>>
    ELSE IF RowBefore(r, sorted[Len(sorted)])
         THEN Append(InsertRow(SubSeq(sorted, 1, Len(sorted) - 1), r), sorted[Len(sorted)])
         ELSE Append(sorted, r)

RECURSIVE sort_values(_)
sort_values(rows) ==
    IF rows = <<>> THEN <<>>
    ELSE InsertRow(sort_values(SubSeq(rows, 1, Len(rows) - 1)), rows[Len(rows)])

PriceRow(r) == [Date |-> r.Date, FullName |-> r.FullName, Price |-> r.Price]

extract_exclusive_end(stocksTable, company_names, start_date, end_date) ==
    LET selected == SelectSeq(stocksTable, LAMBDA r : r.FullName \in company_names)
        from == IF TruthyDate(start_date)
                THEN SelectSeq(selected, LAMBDA r : r.Date >= The(start_date))
                ELSE selected
        upto == IF TruthyDate(end_date)
                THEN SelectSeq(from, LAMBDA r : r.Date < The(end_date))
                ELSE from
    IN sort_values([i \in DOMAIN upto |-> PriceRow(upto[i])])

extract_stock_price_trends(stocksTable, company_names, start_date, end_date) ==
    LET selected == SelectSeq(stocksTable, LAMBDA r : r.FullName \in company_names)
        from == IF TruthyDate(start_date)
                THEN SelectSeq(selected, LAMBDA r : r.Date >= The(start_date))
                ELSE selected
        upto == IF TruthyDate(end_date)
                THEN SelectSeq(from, LAMBDA r : r.Date <= The(end_date))
                ELSE from
    IN sort_values([i \in DOMAIN upto |-> PriceRow(upto[i])])

ExtractStockPriceTrends ==
    /\ Idle
    /\ \E company_names \in SUBSET Names,
          start_date \in Optional(Dates), end_date \in Optional(Dates) :
          /\ call' = [op |-> "extract_stock_price_trends",
                      company_names |-> company_names,
                      start_date |-> start_date, end_date |-> end_date]
          /\ result' = extract_stock_price_trends(stocks, company_names,
                                                  start_date, end_date)
    /\ UNCHANGED <<files, phase, esg, stocks>>

----------------------------------------------------------------------------
(* analyze_esg_vs_stock_returns (esgstocks_api.py, lines 144-180).         *)

RECURSIVE GCD(_, _)
GCD(a, b) == IF b = 0 THEN a ELSE GCD(b, a % b)
Abs(n) == IF n < 0 THEN 0 - n ELSE n

\* The exact quotient n / d, d > 0, in lowest terms (the code computes it in
\* floating point).
Quotient(n, d) == LET g == GCD(Abs(n), d) IN <<n \div g, d \div g>>

\* Lines 172-174: (end_price - start_price) / start_price * 100; NaN if a price
\* is NaN.
stock_return(start_price, end_price) ==
    IF IsNaN(start_price) \/ IsNaN(end_price) THEN NaN
    ELSE Num(Quotient((Val(end_price) - Val(start_price)) * 100, Val(start_price)))

\* GroupBy "first" and "last": the first and the last value of the group that is
\* not NaN, NaN if there is none.
first_valid(prices) ==
    LET valid == SelectSeq(prices, LAMBDA x : ~IsNaN(x))
    IN IF valid = <<>> THEN NaN ELSE valid[1]
last_valid(prices) ==
    LET valid == SelectSeq(prices, LAMBDA x : ~IsNaN(x))
    IN IF valid = <<>> THEN NaN ELSE valid[Len(valid)]

\* Lines 169-175: one row per full name among the price rows, in name order.
group_returns(priceRows) ==
    LET present == {priceRows[i].FullName : i \in DOMAIN priceRows}
        keys == SelectSeq(NameOrder, LAMBDA n : n \in present)
    IN [g \in DOMAIN keys |->
          LET members == SelectSeq(priceRows, LAMBDA r : r.FullName = keys[g])
              prices == [i \in DOMAIN members |-> members[i].Price]
              start_price == first_valid(prices)
              end_price == last_valid(prices)
          IN [FullName |-> keys[g], start_price |-> start_price,
              end_price |-> end_price,
              StockReturn |-> stock_return(start_price, end_price)]]

\* Lines 158-164: the records of the selected companies with their risk level,
\* filtered by it.
filter_by_risk(esgTable, company_names, biz_risks) ==
    LET selected == SelectSeq(esgTable, LAMBDA r : r.FullName \in company_names)
        with_risk == [i \in DOMAIN selected |->
                        [rec |-> selected[i],
                         BusinessRiskLevel |->
                             classify_biz_risk(selected[i].overallRisk)]]
    IN IF Truthy(biz_risks)
       THEN SelectSeq(with_risk, LAMBDA r : r.BusinessRiskLevel \in The(biz_risks))
       ELSE with_risk

\* pd.merge(left, right, on = "Full Name", how = "inner"): the pairs of rows of
\* equal name, in the order of the left rows; the right table has one row a name.
RECURSIVE merge_inner(_, _)
merge_inner(left, right) ==
    IF left = <<>> THEN <<>>
    ELSE LET l == Head(left)
             matches == SelectSeq(right, LAMBDA r : r.FullName = l.rec.FullName)
         IN [m \in DOMAIN matches |->
               [FullName |-> l.rec.FullName, totalEsg |-> l.rec.totalEsg,
                StockReturn |-> matches[m].StockReturn,
                BusinessRiskLevel |-> l.BusinessRiskLevel]]
            \o merge_inner(Tail(left), right)

analyze_esg_vs_stock_returns(esgTable, stocksTable, company_names, start_date, end_date, biz_risks) ==
    LET fltr_esg_df == filter_by_risk(esgTable, company_names, biz_risks)
        names == {fltr_esg_df[i].rec.FullName : i \in DOMAIN fltr_esg_df}
        stock_prices_df == extract_stock_price_trends(stocksTable, names,
                                                      start_date, end_date)
    IN merge_inner(fltr_esg_df, group_returns(stock_prices_df))

AnalyzeEsgVsStockReturns ==
    /\ Idle
    /\ \E company_names \in SUBSET Names,
          start_date \in Optional(Dates), end_date \in Optional(Dates),
          biz_risks \in Optional(SUBSET BizRiskLevels) :
          /\ call' = [op |-> "analyze_esg_vs_stock_returns",
                      company_names |-> company_names,
                      start_date |-> start_date, end_date |-> end_date,
                      biz_risks |-> biz_risks]
          /\ result' = analyze_esg_vs_stock_returns(esg, stocks, company_names,
                                                    start_date, end_date, biz_risks)
    /\ UNCHANGED <<files, phase, esg, stocks>>

----------------------------------------------------------------------------
(* code_mapping (sankey.py, lines 39-60).                                  *)

Labels == {"X", "Y", "Z"}

\* The tables handed to code_mapping: up to MaxLinks (src, targ, value) rows.
LinkTables ==
    UNION {[1..n -> [src : Labels, targ : Labels, value : {1}]] : n \in 0..MaxLinks}

\* set(df[src]).union(set(df[targ])).
LabelSet(df) == {df[n].src : n \in DOMAIN df} \cup {df[n].targ : n \in DOMAIN df}

\* list(...) of a set: its elements once each, in an order Python does not fix.
ListsOf(S) ==
    {l \in [1..Cardinality(S) -> S] : \A i, j \in DOMAIN l : i # j => l[i] # l[j]}

\* dict(zip(labels, range(len(labels)))): a label's code is the place of its
\* last occurrence in the list, counted from 0.
lc_map(labels) ==
    [l \in Range(labels) |->
        (CHOOSE i \in DOMAIN labels :
            labels[i] = l /\ \A j \in DOMAIN labels : labels[j] = l => j <= i) - 1]

\* Lines 51-60 with `labels` the list of line 50.
recode(df, labels) ==
    [df |-> [n \in DOMAIN df |->
               [src |-> lc_map(labels)[df[n].src], targ |-> lc_map(labels)[df[n].targ],
                value |-> df[n].value]],
     labels |-> labels]

\* The labels listed column after column, repeats kept, instead of the set.
code_mapping_without_set(df, labels) ==
    recode(df, [n \in DOMAIN df |-> df[n].src] \o [n \in DOMAIN df |-> df[n].targ])

code_mapping(df, labels) == recode(df, labels)

\* code_mapping is applied to a table that awaits its codes.
CodeMapping ==
    /\ call.op = "link_table"
    /\ \E labels \in ListsOf(LabelSet(call.df)) :
          /\ call' = [op |-> "code_mapping", df |-> call.df]
          /\ result' = code_mapping(call.df, labels)
    /\ UNCHANGED <<files, phase, esg, stocks>>

----------------------------------------------------------------------------
(* stack_columns (sankey.py, lines 15-37).                                 *)

StackColumnNames == {"a", "b", "c"}
StackLabels == {"X", "Y"}

\* The value column of the table: a different weight in every row.
Weight(i) == 2 * i + 1

\* The tables handed to stack_columns: up to MaxRows rows of three categorical
\* columns and a value column.
StackTables ==
    UNION {{[i \in 1..n |-> [a |-> t[i].a, b |-> t[i].b, c |-> t[i].c,
                             value |-> Weight(i)]] :
               t \in [1..n -> [a : StackLabels, b : StackLabels, c : StackLabels]]} :
           n \in 0..MaxRows}

\* The column lists of a call: two or more names, a name possibly repeated.
ColumnLists == UNION {[1..k -> StackColumnNames] : k \in 2..MaxCols}

\* Lines 29-32 for the pair (col1, col2): df[[col1, col2, "value"]] under the
\* names src, targ, value.
pair_df(df, col1, col2) ==
    [i \in DOMAIN df |-> [src |-> df[i][col1], targ |-> df[i][col2], value |-> df[i].value]]

\* pd.concat(stacked_dfs, ignore_index = True), where stacked_dfs[j] is the
\* table of the pair sources[j], targets[j].
RECURSIVE concat_pairs(_, _, _)
concat_pairs(df, sources, targets) ==
    IF sources = <<>> THEN <<>>
    ELSE concat_pairs(df, SubSeq(sources, 1, Len(sources) - 1),
                      SubSeq(targets, 1, Len(targets) - 1))
             \o pair_df(df, sources[Len(sources)], targets[Len(targets)])

\* Every column paired with the first one instead of with its predecessor.
stack_columns_from_first(df, cols) ==
    concat_pairs(df, [j \in 1..(Len(cols) - 1) |-> cols[1]], Tail(cols))

\* zip(cols, cols[1:]) pairs cols[j] with cols[j + 1].
stack_columns(df, cols) ==
    concat_pairs(df, SubSeq(cols, 1, Len(cols) - 1), Tail(cols))

\* stack_columns is applied to a table that awaits its stacking.
StackColumns ==
    /\ call.op = "wide_table"
    /\ \E cols \in ColumnLists :
          /\ call' = [op |-> "stack_columns", df |-> call.df, cols |-> cols]
          /\ result' = stack_columns(call.df, cols)
    /\ UNCHANGED <<files, phase, esg, stocks>>

----------------------------------------------------------------------------
(* make_sankey (sankey.py, lines 62-129) up to the data of the figure.     *)

\* Lines 79-82: df["value"] = df[vals], or 1 where no value column is named.
\* The assignment writes into the table that was passed.
with_value(df, vals) ==
    [i \in DOMAIN df |->
        [c \in (DOMAIN df[i]) \cup {"value"} |->
            IF c # "value" THEN df[i][c]
            ELSE IF vals = None THEN 1 ELSE df[i][The(vals)]]]

\* The labels of the source and target columns of the stacked table.
sankey_labels(df, cols, vals) == LabelSet(stack_columns(with_value(df, vals), cols))

\* Lines 85-88 and the node and link data of lines 97-111, with `labels` the
\* list of line 50 of code_mapping.
make_sankey(df, cols, vals, labels) ==
    code_mapping(stack_columns(with_value(df, vals), cols), labels)

\* The column lists and value columns with which make_sankey is called on a
\* breakdown.
BreakdownColumnLists ==
    {<<"Company", "ESGDimension">>, <<"ESGLevel", "BusinessRiskLevel">>,
     <<"BusinessRiskLevel", "Company", "ESGLevel">>}
ValueColumns == Optional({"Score"})

\* An empty breakdown has no columns: df[vals], or df[[col1, col2, "value"]]
\* where no value column is named, raises.
make_sankey_error(df) == IF df = <<>> THEN Some("KeyError") ELSE None

\* make_sankey is called on the breakdown that build_esg_risk_hierarchy has just
\* returned; `df` of the call is that table after the call.
MakeSankey ==
    /\ phase = "loaded"
    /\ call.op = "build_esg_risk_hierarchy"
    /\ \E cols \in BreakdownColumnLists, vals \in ValueColumns :
          IF make_sankey_error(result) # None
          THEN /\ call' = [op |-> "make_sankey", df |-> result, cols |-> cols, vals |-> vals]
               /\ result' = make_sankey_error(result)
          ELSE \E labels \in ListsOf(sankey_labels(result, cols, vals)) :
                  /\ call' = [op |-> "make_sankey", df |-> with_value(result, vals),
                              cols |-> cols, vals |-> vals]
                  /\ result' = make_sankey(result, cols, vals, labels)
    /\ UNCHANGED <<files, phase, esg, stocks>>

----------------------------------------------------------------------------
(* The callbacks of the dashboard (esgstocks_explore.py, lines 51-115).    *)
(* The widgets hand them lists, never None, and a (start, end) pair of     *)
(* dates; width and height only size the figure.                           *)

Placeholder ==
    [kind |-> "Markdown", text |-> "### No visualization is available for the selected filters."]

SankeyColumns == <<"Company", "ESGDimension", "ESGLevel", "BusinessRiskLevel">>

\* sk.make_sankey(df, "Company", "ESG Dimension", "ESG Level", "Business Risk
\* Level", vals = "Score", ...) of lines 66-69: the figure, or the exception.
sankey_figure(df, labels) ==
    IF make_sankey_error(df) # None
    THEN [kind |-> "raised", error |-> The(make_sankey_error(df))]
    ELSE [kind |-> "figure", builder |-> "make_sankey",
          df |-> with_value(df, Some("Score")),
          data |-> make_sankey(df, SankeyColumns, Some("Score"), labels)]

\* pt.make_line_plot and pt.make_scatter_plot draw the table they are given.
plot_figure(builder, df) == [kind |-> "figure", builder |-> builder, df |-> df]

\* The Sankey builder called whatever the breakdown holds.
get_sankey_diagram_unguarded(esgTable, company_names, esg_levels, biz_risks, labels) ==
    sankey_figure(build_esg_risk_hierarchy(esgTable, company_names, Some(esg_levels),
                                           Some(biz_risks)), labels)

get_sankey_diagram(esgTable, company_names, esg_levels, biz_risks, labels) ==
    LET df == build_esg_risk_hierarchy(esgTable, company_names, Some(esg_levels),
                                       Some(biz_risks))
    IN IF df = <<>> THEN Placeholder ELSE sankey_figure(df, labels)

get_line_plot(stocksTable, company_names, date_range) ==
    LET df == extract_stock_price_trends(stocksTable, company_names,
                                         Some(date_range[1]), Some(date_range[2]))
    IN IF df = <<>> THEN Placeholder ELSE plot_figure("make_line_plot", df)

get_scatter_plot(esgTable, stocksTable, company_names, date_range, biz_risks) ==
    LET df == analyze_esg_vs_stock_returns(esgTable, stocksTable, company_names,
                  Some(date_range[1]), Some(date_range[2]), Some(biz_risks))
    IN IF df = <<>> THEN Placeholder ELSE plot_figure("make_scatter_plot", df)

\* The values of the widgets: company_selector offers the names of the ESG
\* table, date_range_slider a start that is not after its end.
CompanySelections == SUBSET Range(get_company_names(esg))
DateRanges == {r \in Dates \X Dates : r[1] <= r[2]}

\* One call of a callback; `df` of the call is the table the view returned.
GetSankeyDiagram ==
    /\ Idle
    /\ \E company_names \in CompanySelections,
          esg_levels \in SUBSET EsgLevels,
          biz_risks \in SUBSET BizRiskLevels :
          LET df == build_esg_risk_hierarchy(esg, company_names, Some(esg_levels),
                                             Some(biz_risks))
          IN \E labels \in ListsOf(sankey_labels(df, SankeyColumns, Some("Score"))) :
                /\ call' = [op |-> "get_sankey_diagram", company_names |-> company_names,
                            esg_levels |-> Some(esg_levels), biz_risks |-> Some(biz_risks),
                            df |-> df]
                /\ result' = get_sankey_diagram(esg, company_names, esg_levels,
                                                biz_risks, labels)
    /\ UNCHANGED <<files, phase, esg, stocks>>

GetLinePlot ==
    /\ Idle
    /\ \E company_names \in CompanySelections, date_range \in DateRanges :
          /\ call' = [op |-> "get_line_plot", company_names |-> company_names,
                      start_date |-> Some(date_range[1]), end_date |-> Some(date_range[2]),
                      df |-> extract_stock_price_trends(stocks, company_names,
                                 Some(date_range[1]), Some(date_range[2]))]
          /\ result' = get_line_plot(stocks, company_names, date_range)
    /\ UNCHANGED <<files, phase, esg, stocks>>

GetScatterPlot ==
    /\ Idle
    /\ \E company_names \in CompanySelections,
          date_range \in DateRanges,
          biz_risks \in SUBSET BizRiskLevels :
          /\ call' = [op |-> "get_scatter_plot", company_names |-> company_names,
                      start_date |-> Some(date_range[1]), end_date |-> Some(date_range[2]),
                      biz_risks |-> Some(biz_risks),
                      df |-> analyze_esg_vs_stock_returns(esg, stocks, company_names,
                                 Some(date_range[1]), Some(date_range[2]), Some(biz_risks))]
          /\ result' = get_scatter_plot(esg, stocks, company_names, date_range, biz_risks)
    /\ UNCHANGED <<files, phase, esg, stocks>>

----------------------------------------------------------------------------
(* The classification functions applied to a score (static methods: no     *)
(* data need be loaded).                                                   *)

EsgScores == (0 - Tenths(MaxScore))..Tenths(MaxScore)
RiskScores == (0 - MaxRisk)..MaxRisk

ClassifyEsg ==
    /\ \E esg_score \in EsgScores :
          /\ call' = [op |-> "classify_esg", esg_score |-> esg_score]
          /\ result' = classify_esg(esg_score)
    /\ UNCHANGED <<files, phase, esg, stocks>>

ClassifyBizRisk ==
    /\ \E biz_risk \in RiskScores :
          /\ call' = [op |-> "classify_biz_risk", biz_risk |-> biz_risk]
          /\ result' = classify_biz_risk(biz_risk)
    /\ UNCHANGED <<files, phase, esg, stocks>>

----------------------------------------------------------------------------
(* Specifications.                                                         *)

\* ESGStockAPI.__init__ (lines 14-21) over the files `fs`.
Constructed(fs) ==
    /\ files \in fs
    /\ phase = "constructed"
    /\ esg = <<>>
    /\ stocks = <<>>
    /\ call = [op |-> "__init__"]
    /\ result = None

InitClassify == Constructed({NoFiles})
NextClassify == ClassifyEsg \/ ClassifyBizRisk
SpecClassify == InitClassify /\ [][NextClassify]_vars

InitBreakdown == Constructed(BreakdownFiles)
NextBreakdown == ReadData \/ GetCompanyNames \/ BuildEsgRiskHierarchy \/ Return
SpecBreakdown == InitBreakdown /\ [][NextBreakdown]_vars

\* A (src, targ, value) table is at hand; no data need be loaded.
InitSankey ==
    /\ files = NoFiles
    /\ phase = "constructed"
    /\ esg = <<>>
    /\ stocks = <<>>
    /\ \E df \in LinkTables : call = [op |-> "link_table", df |-> df]
    /\ result = None
NextSankey == CodeMapping
SpecSankey == InitSankey /\ [][NextSankey]_vars

InitStocks == Constructed(StockFiles)
NextStocks == ReadData \/ ExtractStockPriceTrends \/ AnalyzeEsgVsStockReturns \/ Return
SpecStocks == InitStocks /\ [][NextStocks]_vars

\* ESGStockAPI.__init__ over files of which one may have a defect.
InitLoad ==
    /\ \E e \in StockEsgFiles, p \in LoadPriceFiles, defect \in Defects :
          files = Damaged([esg |-> e, prices |-> p, text |-> {}], defect)
    /\ phase = "constructed"
    /\ esg = <<>>
    /\ stocks = <<>>
    /\ call = [op |-> "__init__"]
    /\ result = None
NextLoad == ReadData \/ ReadDataFails
SpecLoad == InitLoad /\ [][NextLoad]_vars

\* Files of the view specification: the ESG records of "A" and "B" under any
\* names, and two price files.
ViewFiles ==
    {[esg |-> e, prices |-> p, text |-> {}] :
        e \in StockEsgFiles,
        p \in {PriceFile(<<"A", "B">>, Ascending, {}), PriceFile(<<"C", "A">>, Descending, {1})}}

InitViews == Constructed(ViewFiles)
NextViews ==
    \/ ReadData
    \/ GetCompanyNames
    \/ BuildEsgRiskHierarchy
    \/ ExtractStockPriceTrends
    \/ AnalyzeEsgVsStockReturns
    \/ MakeSankey
    \/ Return
SpecViews == InitViews /\ [][NextViews]_vars

\* Files of the dashboard specification: one ESG record at each profile, and a
\* price file with or without a column of its symbol.
DashboardFiles ==
    {[esg |-> <<EsgRecord("A", NameOrder[1], pr[1], pr[2])>>, prices |-> p, text |-> {}] :
        pr \in Profiles,
        p \in {PriceFile(<<"A", "B">>, Ascending, {}), PriceFile(<<"B">>, Ascending, {})}}

InitDashboard == Constructed(DashboardFiles)
NextDashboard == ReadData \/ GetSankeyDiagram \/ GetLinePlot \/ GetScatterPlot \/ Return
SpecDashboard == InitDashboard /\ [][NextDashboard]_vars

\* A table of categorical columns is at hand; no data need be loaded.
InitStack ==
    /\ files = NoFiles
    /\ phase = "constructed"
    /\ esg = <<>>
    /\ stocks = <<>>
    /\ \E df \in StackTables : call = [op |-> "wide_table", df |-> df]
    /\ result = None
NextStack == StackColumns
SpecStack == InitStack /\ [][NextStack]_vars

----------------------------------------------------------------------------
(* Claims about the classification functions (SpecClassify).               *)

\* C1: classify_esg returns "High ESG" for a score above 30, "Medium ESG" for a
\* score from 20 to 30 and "Low ESG" for a score below 20, and nothing else;
\* 31 is High, 20 is Medium, 19.9 is Low.
C1_ClassifyEsgThresholds ==
    call.op = "classify_esg" =>
        LET s == call.esg_score
        IN /\ result \in EsgLevels
           /\ result = "High ESG" <=> s > Tenths(30)
           /\ result = "Medium ESG" <=> (Tenths(20) <= s /\ s <= Tenths(30))
           /\ result = "Low ESG" <=> s < Tenths(20)
           /\ s = 310 => result = "High ESG"
           /\ s = 200 => result = "Medium ESG"
           /\ s = 199 => result = "Low ESG"

C1_Witness ==
    /\ call.op = "classify_esg"
    /\ call.esg_score = Tenths(30)
    /\ result = "Medium ESG"

\* C2 as stated: classify_biz_risk returns exactly the string "Low" for a score
\* up to 3, "Medium" for 4 to 6 and "High" above 6.
C2_BareLabels ==
    call.op = "classify_biz_risk" =>
        LET r == call.biz_risk
        IN /\ r <= 3 => result = "Low"
           /\ (4 <= r /\ r <= 6) => result = "Medium"
           /\ r > 6 => result = "High"

\* C2 as amended: the three bands are as claimed, and the strings returned are
\* "Low Business Risk", "Medium Business Risk" and "High Business Risk".
C2_ClassifyBizRiskBands ==
    call.op = "classify_biz_risk" =>
        LET r == call.biz_risk
        IN /\ result \in BizRiskLevels
           /\ result = "Low Business Risk" <=> r <= 3
           /\ result = "Medium Business Risk" <=> (4 <= r /\ r <= 6)
           /\ result = "High Business Risk" <=> r > 6

C2_Witness ==
    /\ call.op = "classify_biz_risk"
    /\ call.biz_risk = 3
    /\ result = "Low Business Risk"

----------------------------------------------------------------------------
(* Claims about build_esg_risk_hierarchy (SpecBreakdown).                  *)

\* An absent or empty level list restricts nothing.
Allows(optLevels, level) ==
    optLevels = None \/ The(optLevels) = {} \/ level \in The(optLevels)

\* The records of the loaded ESG table that the arguments of the call select.
PassingRecords ==
    {i \in DOMAIN esg :
        /\ Allows(call.biz_risks, classify_biz_risk(esg[i].overallRisk))
        /\ Allows(call.esg_levels, classify_esg(esg[i].totalEsg))
        /\ esg[i].FullName \in call.company_names}

RecordScores(i) == {esg[i][ScoreColumns[k]] : k \in 1..3}

\* The rows of the returned breakdown that were made from record i.
RowsOf(i) == {n \in DOMAIN result : result[n].Score \in RecordScores(i)}

\* C8: the records that build_esg_risk_hierarchy selects are exactly those whose
\* name is in company_names, whose ESG level is in esg_levels and whose
\* business-risk level is in biz_risks, an absent or empty list allowing every
\* level; the order of the two level tests does not matter.
C8_SelectsExactlyPassingRecords ==
    call.op = "build_esg_risk_hierarchy" =>
        {i \in DOMAIN esg : RowsOf(i) # {}} = PassingRecords

C8_Witness ==
    /\ call.op = "build_esg_risk_hierarchy"
    /\ Truthy(call.esg_levels)
    /\ Truthy(call.biz_risks)
    /\ PassingRecords # {}
    /\ \E j \in DOMAIN esg :
          /\ j \notin PassingRecords
          /\ RowsOf(j) = {}
          /\ esg[j].FullName \in call.company_names
          /\ classify_esg(esg[j].totalEsg) \in The(call.esg_levels)

\* C9: every selected record gives exactly three rows, Environmental, Social and
\* Governance, with that record's environmentScore, socialScore and
\* governanceScore, its name and the levels of its own totalEsg and overallRisk;
\* a record that fails a filter gives no row.
C9_ThreeRowsPerSelectedRecord ==
    call.op = "build_esg_risk_hierarchy" =>
        /\ Len(result) = 3 * Cardinality(PassingRecords)
        /\ \A i \in DOMAIN esg :
              IF i \in PassingRecords
              THEN /\ Cardinality(RowsOf(i)) = 3
                   /\ \A k \in 1..3 :
                         \E n \in RowsOf(i) :
                            result[n] =
                               [Company |-> esg[i].FullName,
                                ESGDimension |-> Dimensions[k],
                                ESGLevel |-> classify_esg(esg[i].totalEsg),
                                BusinessRiskLevel |->
                                    classify_biz_risk(esg[i].overallRisk),
                                Score |-> esg[i][ScoreColumns[k]]]
              ELSE RowsOf(i) = {}

C9_Witness ==
    /\ call.op = "build_esg_risk_hierarchy"
    /\ Len(result) = 3
    /\ Len(esg) = 2
    /\ \E i \in DOMAIN esg : i \notin PassingRecords /\ esg[i].FullName \in call.company_names
    /\ result[2].ESGDimension = "Social"
    /\ result[2].Score = esg[CHOOSE i \in PassingRecords : TRUE].socialScore

----------------------------------------------------------------------------
(* Claims about the stock table and its views (SpecStocks).                *)

EsgSymbols == {files.esg[i].Symbol : i \in DOMAIN files.esg}
FileColumns == Range(files.prices.cols)

\* A date is inside the requested range; an absent bound does not restrict.
InRange(d, start_date, end_date) ==
    /\ start_date = None \/ The(start_date) <= d
    /\ end_date = None \/ d <= The(end_date)

\* The numbers written in the columns of the price file whose ticker is one of
\* `symbols`.
PricesOfColumns(symbols) ==
    {Val(files.prices.rows[c[1]].cells[c[2]]) :
        c \in {c \in (DOMAIN files.prices.rows) \X (DOMAIN files.prices.cols) :
                 /\ files.prices.cols[c[2]] \in symbols
                 /\ ~IsNaN(files.prices.rows[c[1]].cells[c[2]])}}
ForeignPrices == PricesOfColumns(FileColumns \ EsgSymbols)

\* A return is the percentage change between two of the prices in P.
ReturnOver(ret, P) ==
    \E p0 \in P, p1 \in P :
        /\ Val(ret)[2] > 0
        /\ Val(ret)[1] * p0 = Val(ret)[2] * (p1 - p0) * 100

\* C4: a ticker column of the price file that is not a symbol of the ESG file has
\* no row in the loaded stock table, no price of it is in a result of
\* extract_stock_price_trends, and every return of analyze_esg_vs_stock_returns
\* is the change between two prices of columns that are ESG symbols.
C4_ForeignSymbolsNeverLoaded ==
    phase = "loaded" =>
        /\ \A k \in DOMAIN stocks : stocks[k].Symbol \in EsgSymbols
        /\ call.op = "extract_stock_price_trends" =>
              \A n \in DOMAIN result :
                 IsNaN(result[n].Price) \/ Val(result[n].Price) \notin ForeignPrices
        /\ call.op = "analyze_esg_vs_stock_returns" =>
              \A n \in DOMAIN result :
                 IsNaN(result[n].StockReturn)
                 \/ ReturnOver(result[n].StockReturn, PricesOfColumns(EsgSymbols))

C4_Witness ==
    /\ phase = "loaded"
    /\ "C" \in FileColumns
    /\ "C" \notin EsgSymbols
    /\ call.op = "extract_stock_price_trends"
    /\ call.company_names = Names
    /\ call.start_date = None
    /\ Len(result) = NumDates

\* C5: when every ticker column of the price file is a symbol of the ESG file,
\* the stock table has one row per (date, column) pair of the file and no other,
\* and the row's price is the file's cell at that date and column.
C5_ReshapeCellByCell ==
    (phase = "loaded" /\ FileColumns \subseteq EsgSymbols) =>
        /\ Len(stocks) = Len(files.prices.cols) * Len(files.prices.rows)
        /\ \A i \in DOMAIN files.prices.rows, j \in DOMAIN files.prices.cols :
              LET hits == {k \in DOMAIN stocks :
                             /\ stocks[k].Date = files.prices.rows[i].Date.day
                             /\ stocks[k].Symbol = files.prices.cols[j]}
              IN /\ Cardinality(hits) = 1
                 /\ \A k \in hits : stocks[k].Price = files.prices.rows[i].cells[j]

C5_Witness ==
    /\ phase = "loaded"
    /\ files.prices.cols = <<"A", "B">>
    /\ Len(stocks) = 2 * NumDates
    /\ \E k \in DOMAIN stocks : IsNaN(stocks[k].Price)
    /\ \E k \in DOMAIN stocks : stocks[k].Symbol = "B" /\ stocks[k].Price = Num(PriceOf("B", 2))

\* The rows of the stock table that a call of extract_stock_price_trends asks for.
MatchingRows ==
    {k \in DOMAIN stocks :
        /\ stocks[k].FullName \in call.company_names
        /\ InRange(stocks[k].Date, call.start_date, call.end_date)}

\* C7: extract_stock_price_trends returns the (date, name, price) of exactly the
\* stock rows whose name is in company_names and whose date lies between
\* start_date and end_date, both included, an absent bound not restricting; the
\* rows come ordered by name and, for one name, by ascending date.
C7_ExtractExactRowsSorted ==
    call.op = "extract_stock_price_trends" =>
        /\ Len(result) = Cardinality(MatchingRows)
        /\ \A t \in Range(result) \cup {PriceRow(stocks[k]) : k \in MatchingRows} :
              Cardinality({n \in DOMAIN result : result[n] = t})
                 = Cardinality({k \in MatchingRows : PriceRow(stocks[k]) = t})
        /\ \A n \in 1..(Len(result) - 1) :
              \/ NameRank(result[n].FullName) < NameRank(result[n + 1].FullName)
              \/ /\ result[n].FullName = result[n + 1].FullName
                 /\ result[n].Date <= result[n + 1].Date

C7_Witness ==
    /\ call.op = "extract_stock_price_trends"
    /\ call.start_date = Some(2)
    /\ call.end_date = Some(NumDates)
    /\ files.prices.rows[1].Date.day = NumDates
    /\ Len(result) = 2 * (NumDates - 1)
    /\ result[1].FullName = "Alpha" /\ result[1].Date = 2
    /\ result[Len(result)].FullName = "Beta" /\ result[Len(result)].Date = NumDates
    /\ \E k \in DOMAIN stocks : stocks[k].Date = 1 /\ stocks[k].FullName = "Alpha"

----------------------------------------------------------------------------
(* Claims about analyze_esg_vs_stock_returns (SpecStocks).                 *)

\* The ESG record an output row of the return analysis belongs to: the record
\* with the row's name and total score (total scores differ between records).
RecordOfRow(row) ==
    CHOOSE i \in DOMAIN esg :
        esg[i].FullName = row.FullName /\ esg[i].totalEsg = row.totalEsg

\* The price rows of a record's own symbol inside the requested date range.
RowsInRange(i) ==
    {k \in DOMAIN stocks :
        /\ stocks[k].Symbol = esg[i].Symbol
        /\ InRange(stocks[k].Date, call.start_date, call.end_date)}

\* ret is (p1 - p0) / p0 * 100, a missing price giving a missing return.
IsPercentChange(ret, p0, p1) ==
    IF IsNaN(p0) \/ IsNaN(p1) THEN IsNaN(ret)
    ELSE /\ ~IsNaN(ret)
         /\ Val(ret)[2] > 0
         /\ Val(ret)[1] * Val(p0) = Val(ret)[2] * (Val(p1) - Val(p0)) * 100

\* C3: the Stock Return of every company in the output is (last - first) / first
\* * 100 of that company's price on the earliest and on the latest date inside
\* the requested range.
C3_ReturnBetweenRangeEndpoints ==
    call.op = "analyze_esg_vs_stock_returns" =>
        \A n \in DOMAIN result :
            LET rows == RowsInRange(RecordOfRow(result[n]))
            IN /\ rows # {}
               /\ \A k0 \in rows, k1 \in rows :
                     (\A k \in rows : stocks[k0].Date <= stocks[k].Date
                                      /\ stocks[k].Date <= stocks[k1].Date)
                     => IsPercentChange(result[n].StockReturn,
                                        stocks[k0].Price, stocks[k1].Price)

\* The output row of a record, if it has one.
HasOutputRow(i) ==
    \E n \in DOMAIN result :
        /\ result[n].FullName = esg[i].FullName
        /\ result[n].totalEsg = esg[i].totalEsg
        /\ result[n].BusinessRiskLevel = classify_biz_risk(esg[i].overallRisk)

\* C6: a selected company with no price row inside the requested range is not in
\* the output; a selected company that passes the business-risk filter and has
\* a price row inside the range is, with its ESG score and risk level.
C6_InnerJoinDrop ==
    call.op = "analyze_esg_vs_stock_returns" =>
        \A i \in DOMAIN esg :
            esg[i].FullName \in call.company_names =>
                /\ RowsInRange(i) = {} => ~HasOutputRow(i)
                /\ (/\ Allows(call.biz_risks, classify_biz_risk(esg[i].overallRisk))
                    /\ RowsInRange(i) # {}) => HasOutputRow(i)

----------------------------------------------------------------------------
(* Claims about code_mapping (SpecSankey).                                 *)

\* The (label, code) pairs of one build: each cell of the source and target
\* columns before the mapping with the same cell after it.
LabelCodePairs ==
    {<<call.df[n].src, result.df[n].src>> : n \in DOMAIN call.df}
        \cup {<<call.df[n].targ, result.df[n].targ>> : n \in DOMAIN call.df}

\* C10: in one build the N labels of the source and target columns get the codes
\* 0 .. N-1 one to one: a label has one code wherever it stands, two labels have
\* two codes, every code is used, and the label list holds each label at its code.
C10_CodesAreDenseBijection ==
    call.op = "code_mapping" =>
        LET N == Cardinality(LabelSet(call.df))
        IN /\ Len(result.df) = Len(call.df)
           /\ \A p, q \in LabelCodePairs : p[1] = q[1] <=> p[2] = q[2]
           /\ {p[2] : p \in LabelCodePairs} = 0..(N - 1)
           /\ Len(result.labels) = N
           /\ \A p \in LabelCodePairs : result.labels[p[2] + 1] = p[1]

C10_Witness ==
    /\ call.op = "code_mapping"
    /\ LabelSet(call.df) = {"X", "Y", "Z"}
    /\ \E n, m \in DOMAIN call.df : n # m /\ call.df[n].src = call.df[m].targ
    /\ {p[2] : p \in LabelCodePairs} = {0, 1, 2}
    /\ result.labels = <<"Z", "X", "Y">>

----------------------------------------------------------------------------
(* Claims about stack_columns (SpecStack).                                 *)

\* C11: for k >= 2 columns and a table of n rows stack_columns returns exactly
\* (k-1) * n triples: for every j in 1..k-1 and every row, one triple with the
\* row's cell of column j as source, its cell of column j+1 as target and its
\* value as value; the triples of pair j stand together, in the order of the
\* rows, after those of pair j-1, so that no triple is left for any other pair.
C11_StacksAdjacentPairs ==
    call.op = "stack_columns" =>
        LET k == Len(call.cols)
            n == Len(call.df)
        IN /\ k >= 2
           /\ Len(result) = (k - 1) * n
           /\ \A j \in 1..(k - 1) : \A i \in 1..n :
                 LET triple == result[(j - 1) * n + i]
                 IN /\ triple.src = call.df[i][call.cols[j]]
                    /\ triple.targ = call.df[i][call.cols[j + 1]]
                    /\ triple.value = call.df[i].value

C11_Witness ==
    /\ call.op = "stack_columns"
    /\ call.cols = <<"c", "a", "b">>
    /\ Len(call.df) = 2
    /\ call.df[1].a = "X" /\ call.df[1].b = "Y" /\ call.df[1].c = "Y"
    /\ Len(result) = 4
    /\ result[3] = [src |-> "X", targ |-> "Y", value |-> Weight(1)]

----------------------------------------------------------------------------
(* Claims about read_data on malformed files (SpecLoad).                   *)

MissingColumns(f) ==
    (EsgColumns \ Header(f.esg)) \cup ({"Date"} \ Header(f.prices.rows))

\* A required column is absent, or a column that must be numeric holds text.
Malformed(f) == MissingColumns(f) # {} \/ (f.text \cap NumericColumns) # {}

\* C12 as stated: on files with an absent required column or with text in a
\* numeric column (totalEsg, a sub-score, overallRisk, a price) read_data raises
\* and never ends with the data loaded.
C12_MalformedInputNeverLoads ==
    (call.op = "read_data" /\ Malformed(files)) => (phase = "failed" /\ result # None)

----------------------------------------------------------------------------
(* Claims about the loaded tables under the views (SpecViews).             *)

\* C13: once read_data has succeeded, whatever calls of get_company_names,
\* build_esg_risk_hierarchy, extract_stock_price_trends,
\* analyze_esg_vs_stock_returns and make_sankey (on a returned breakdown) have
\* been made, the ESG table and the stock table are the tables that read_data
\* loaded, and the table a view returns is the one its arguments give on those
\* tables, the same at every call.
C13_LoadedTablesNeverChange ==
    phase = "loaded" =>
        /\ esg = files.esg
        /\ stocks = load_stocks(files.esg, files.prices)
        /\ call.op = "get_company_names" => result = get_company_names(files.esg)
        /\ call.op = "build_esg_risk_hierarchy" =>
              result = build_esg_risk_hierarchy(files.esg, call.company_names,
                                                call.esg_levels, call.biz_risks)
        /\ call.op = "extract_stock_price_trends" =>
              result = extract_stock_price_trends(load_stocks(files.esg, files.prices),
                           call.company_names, call.start_date, call.end_date)
        /\ call.op = "analyze_esg_vs_stock_returns" =>
              result = analyze_esg_vs_stock_returns(files.esg,
                           load_stocks(files.esg, files.prices), call.company_names,
                           call.start_date, call.end_date, call.biz_risks)

\* make_sankey has written its value column into the breakdown it was given,
\* and the ESG table has no such column.
C13_Witness ==
    /\ phase = "loaded"
    /\ call.op = "make_sankey"
    /\ call.vals = Some("Score")
    /\ Len(call.df) = 6
    /\ \A n \in DOMAIN call.df : call.df[n].value = call.df[n].Score
    /\ \A i \in DOMAIN esg : "value" \notin DOMAIN esg[i]
    /\ esg = files.esg

----------------------------------------------------------------------------
(* Claims about the callbacks of the dashboard (SpecDashboard).            *)

----------------------------------------------------------------------------
(* Claims about the join key of the return analysis (SpecStocks).          *)

\* The records that the arguments select and that have a price row of their own
\* symbol inside the requested range.
MatchingRecords ==
    {i \in DOMAIN esg :
        /\ esg[i].FullName \in call.company_names
        /\ Allows(call.biz_risks, classify_biz_risk(esg[i].overallRisk))
        /\ RowsInRange(i) # {}}

\* The prices of a record's own symbol inside the requested range.
OwnPrices(i) == {Val(stocks[k].Price) : k \in {k \in RowsInRange(i) : ~IsNaN(stocks[k].Price)}}

\* C15 as stated: the symbol joins price rows to ESG records.  The output of
\* analyze_esg_vs_stock_returns has exactly one row for every matching record
\* and no other row, and the return in a record's row is computed from prices of
\* that record's symbol alone, also where two records share a full name.
C15_SymbolIsJoinKey ==
    call.op = "analyze_esg_vs_stock_returns" =>
        /\ Len(result) = Cardinality(MatchingRecords)
        /\ \A i \in MatchingRecords :
              \E n \in DOMAIN result :
                  /\ result[n].FullName = esg[i].FullName
                  /\ result[n].totalEsg = esg[i].totalEsg
                  /\ \/ IsNaN(result[n].StockReturn)
                     \/ ReturnOver(result[n].StockReturn, OwnPrices(i))

====
